---- MODULE Spec2Model ----
(***************************************************************************)
(* Model of map_problem.ino: the candidate implementations of the Arduino  *)
(* range mapping  map(x, in_min, in_max, out_min, out_max)  on 32-bit      *)
(* `long` operands, with the 64-bit `long long` intermediate of the        *)
(* overflow-safe candidates.                                               *)
(*                                                                         *)
(* TLC's integers are 32 bits wide, so every C value is carried as an      *)
(* exact integer in sign-magnitude form, the magnitude a little-endian     *)
(* sequence of limbs; the C operators are built on top of that exact       *)
(* arithmetic, each with its own width, truncation and overflow rule.      *)
(***************************************************************************)
EXTENDS Integers, Sequences, FiniteSets

(***************************************************************************)
(* Exact natural numbers: little-endian limb sequences without leading     *)
(* zero limbs (<<>> is 0).                                                 *)
(***************************************************************************)
LimbBase == 128 * 256

RECURSIVE Trim(_)
Trim(s) ==
    IF s = <<>> THEN s
    ELSE IF s[Len(s)] = 0 THEN Trim(SubSeq(s, 1, Len(s) - 1)) ELSE s

MagOfNat(n) ==
    Trim(<<n % LimbBase, (n \div LimbBase) % LimbBase, n \div (LimbBase * LimbBase)>>)

LimbAt(s, i) == IF i >= 1 /\ i <= Len(s) THEN s[i] ELSE 0

RECURSIVE AddFrom(_, _, _, _)
AddFrom(a, b, i, c) ==
    IF i > Len(a) /\ i > Len(b)
    THEN (IF c = 0 THEN <<>> ELSE <<c>>)
    ELSE LET t == LimbAt(a, i) + LimbAt(b, i) + c
         IN  <<t % LimbBase>> \o AddFrom(a, b, i + 1, t \div LimbBase)

MagAdd(a, b) == AddFrom(a, b, 1, 0)

RECURSIVE SubFrom(_, _, _, _)
SubFrom(a, b, i, borrow) ==
    IF i > Len(a) THEN <<>>
    ELSE LET t == a[i] - LimbAt(b, i) - borrow
         IN  <<t % LimbBase>> \o SubFrom(a, b, i + 1, IF t < 0 THEN 1 ELSE 0)

\* a - b for a >= b
MagSub(a, b) == Trim(SubFrom(a, b, 1, 0))

RECURSIVE CmpFrom(_, _, _)
CmpFrom(a, b, i) ==
    IF i = 0 THEN 0
    ELSE IF a[i] < b[i] THEN -1
    ELSE IF a[i] > b[i] THEN 1
    ELSE CmpFrom(a, b, i - 1)

\* -1, 0, 1 as a < b, a = b, a > b
MagCmp(a, b) ==
    IF Len(a) < Len(b) THEN -1
    ELSE IF Len(a) > Len(b) THEN 1
    ELSE CmpFrom(a, b, Len(a))

RECURSIVE MulLimbFrom(_, _, _, _)
MulLimbFrom(a, k, i, c) ==
    IF i > Len(a)
    THEN (IF c = 0 THEN <<>> ELSE <<c>>)
    ELSE LET t == a[i] * k + c
         IN  <<t % LimbBase>> \o MulLimbFrom(a, k, i + 1, t \div LimbBase)

\* a * k for one limb k
MagMulLimb(a, k) == IF k = 0 THEN <<>> ELSE MulLimbFrom(a, k, 1, 0)

MagShift(a) == IF a = <<>> THEN a ELSE <<0>> \o a

RECURSIVE MulRows(_, _, _)
MulRows(a, b, j) ==
    IF j > Len(b) THEN <<>>
    ELSE MagAdd(MagMulLimb(a, b[j]), MagShift(MulRows(a, b, j + 1)))

MagMul(a, b) == MulRows(a, b, 1)

RECURSIVE FixDigit(_, _, _)
FixDigit(cur, d, q) ==
    IF MagCmp(MagMulLimb(d, q), cur) > 0 THEN FixDigit(cur, d, q - 1) ELSE q

\* schoolbook long division of n by the normalised divisor d (top limb at
\* least LimbBase/2), from limb i down, r the running remainder
RECURSIVE LongDiv(_, _, _, _)
LongDiv(n, d, i, r) ==
    IF i = 0 THEN <<>>
    ELSE LET cur  == Trim(<<n[i]>> \o r)
             t    == Len(d)
             est  == (LimbAt(cur, t + 1) * LimbBase + LimbAt(cur, t)) \div d[t]
             qhat == FixDigit(cur, d, IF est > LimbBase - 1 THEN LimbBase - 1 ELSE est)
         IN  LongDiv(n, d, i - 1, MagSub(cur, MagMulLimb(d, qhat))) \o <<qhat>>

\* floor(n / d) for d # 0
MagDiv(n, d) ==
    LET f  == LimbBase \div (d[Len(d)] + 1)
        nn == MagMulLimb(n, f)
    IN  Trim(LongDiv(nn, MagMulLimb(d, f), Len(nn), <<>>))

(***************************************************************************)
(* Exact integers: a sign and a magnitude; zero is never negative.         *)
(***************************************************************************)
Z(neg, mag) == [neg |-> neg /\ mag # <<>>, mag |-> mag]

\* LONG_MAX of <limits.h> where long is 32 bits wide (AVR, ESP32, SAMD)
LONG_MAX == 2147483647

LONG_MIN == -LONG_MAX - 1

IntToZ(i) ==
    IF i >= 0 THEN Z(FALSE, MagOfNat(i))
    ELSE Z(TRUE, MagAdd(MagOfNat(-(i + 1)), <<1>>))

ZIsZero(a) == a.mag = <<>>

ZNeg(a) == Z(~a.neg, a.mag)

ZAdd(a, b) ==
    IF a.neg = b.neg THEN Z(a.neg, MagAdd(a.mag, b.mag))
    ELSE IF MagCmp(a.mag, b.mag) >= 0 THEN Z(a.neg, MagSub(a.mag, b.mag))
    ELSE Z(b.neg, MagSub(b.mag, a.mag))

ZSub(a, b) == ZAdd(a, ZNeg(b))

ZMul(a, b) == Z(a.neg # b.neg, MagMul(a.mag, b.mag))

\* C's integer division: the quotient is truncated toward zero
ZQuot(a, b) == Z(a.neg # b.neg, MagDiv(a.mag, b.mag))

\* -1, 0, 1 as a < b, a = b, a > b
ZCmp(a, b) ==
    IF a.neg /\ ~b.neg THEN -1
    ELSE IF ~a.neg /\ b.neg THEN 1
    ELSE IF a.neg THEN MagCmp(b.mag, a.mag)
    ELSE MagCmp(a.mag, b.mag)

(***************************************************************************)
(* The two signed types of the sketch: `long` (32 bits) and `long long`    *)
(* (64 bits).  HalfRange(T) is 2^(width-1) as a magnitude.                 *)
(***************************************************************************)
\* mutant: a long long of 63 bits
HalfRange_Narrow(T) == IF T = "long" THEN <<0, 0, 2>> ELSE <<0, 0, 0, 0, 4>>

HalfRange(T) == IF T = "long" THEN <<0, 0, 2>> ELSE <<0, 0, 0, 0, 8>>

Fits(T, z) ==
    IF z.neg THEN MagCmp(z.mag, HalfRange(T)) <= 0
    ELSE MagCmp(z.mag, HalfRange(T)) < 0

\* mutant: an overflowing result saturates at the ends of the range
WrapSaturate(T, z) ==
    IF Fits(T, z) THEN z
    ELSE IF z.neg THEN Z(TRUE, HalfRange(T))
    ELSE Z(FALSE, MagSub(HalfRange(T), <<1>>))

\* z reduced modulo 2^width into the signed range of T (two's complement)
Wrap(T, z) ==
    LET full == MagAdd(HalfRange(T), HalfRange(T))
        m    == MagSub(z.mag, MagMul(MagDiv(z.mag, full), full))
        u    == IF z.neg /\ m # <<>> THEN MagSub(full, m) ELSE m
    IN  IF MagCmp(u, HalfRange(T)) >= 0 THEN Z(TRUE, MagSub(full, u))
        ELSE Z(FALSE, u)

\* the TLC integer of an exact integer that fits `long`
ZToInt(z) ==
    LET lo == LimbAt(z.mag, 1) + LimbAt(z.mag, 2) * LimbBase
        hi == LimbAt(z.mag, 3)
    IN  IF ~z.neg THEN lo + hi * LimbBase * LimbBase
        ELSE IF hi = 2 THEN LONG_MIN
        ELSE -(lo + hi * LimbBase * LimbBase)

(***************************************************************************)
(* C expressions.  An expression evaluates to a set of possible outcomes,  *)
(* each a value v with the events ev that led to it.  A signed operation   *)
(* whose exact result does not fit its type is undefined behaviour: the    *)
(* build either wraps it (two's complement, what the recorded boards do)   *)
(* or, entitled to assume no overflow, carries the exact value on in a     *)
(* wider register.  Every overflowing operation chooses on its own; an     *)
(* operation on a value already carried wide stays exact.                  *)
(***************************************************************************)
Val(i) == {[v |-> IntToZ(i), ev |-> {}]}

Trapped(c) == "trap" \in c.ev

Signed(T, a, b, z, op) ==
    IF Fits(T, z) \/ ~Fits(T, a.v) \/ ~Fits(T, b.v)
    THEN {[v |-> z, ev |-> a.ev \cup b.ev]}
    ELSE {[v |-> Wrap(T, z), ev |-> a.ev \cup b.ev \cup {op \o ".wrap"}],
          [v |-> z, ev |-> a.ev \cup b.ev \cup {op \o ".wide"}]}

Bin(T, op, a, b, z) ==
    IF Trapped(a) THEN {a}
    ELSE IF Trapped(b) THEN {b}
    ELSE Signed(T, a, b, z, op)

\* A - B, A * B, A + B in type T
SubC(T, A, B) == UNION {Bin(T, "sub", a, b, ZSub(a.v, b.v)) : a \in A, b \in B}

MulC(T, A, B) == UNION {Bin(T, "mul", a, b, ZMul(a.v, b.v)) : a \in A, b \in B}

AddC(T, A, B) == UNION {Bin(T, "add", a, b, ZAdd(a.v, b.v)) : a \in A, b \in B}

\* Integer division by zero is undefined: "AVR returns -1, SAM returns 0",
\* and a core with a divide exception (ESP32) stops the sketch.
DivByZero(ev) ==
    {[v |-> IntToZ(-1), ev |-> ev \cup {"div0"}],
     [v |-> IntToZ(0),  ev |-> ev \cup {"div0"}],
     [v |-> IntToZ(0),  ev |-> ev \cup {"div0", "trap"}]}

\* A / B in type T
DivC(T, A, B) ==
    UNION {IF Trapped(a) THEN {a}
           ELSE IF Trapped(b) THEN {b}
           ELSE IF ZIsZero(b.v) THEN DivByZero(a.ev \cup b.ev)
           ELSE Signed(T, a, b, ZQuot(a.v, b.v), "div") : a \in A, b \in B}

\* `return e;` from a function returning long: the value is converted to
\* long (gcc reduces it modulo 2^32 when it does not fit)
ReturnLong(A) ==
    {[val |-> IF Trapped(c) THEN 0
              ELSE ZToInt(IF Fits("long", c.v) THEN c.v ELSE Wrap("long", c.v)),
      ev  |-> c.ev] : c \in A}

(***************************************************************************)
(* CANDIDATES                                                              *)
(***************************************************************************)
\* mutant: the quotient rounded to nearest, half the divisor added first
mapArduino_Rounded(x, in_min, in_max, out_min, out_max) ==
    ReturnLong(
        AddC("long",
             DivC("long",
                  AddC("long",
                       MulC("long", SubC("long", Val(x), Val(in_min)),
                                    SubC("long", Val(out_max), Val(out_min))),
                       DivC("long", SubC("long", Val(in_max), Val(in_min)), Val(2))),
                  SubC("long", Val(in_max), Val(in_min))),
             Val(out_min)))

mapArduino(x, in_min, in_max, out_min, out_max) ==
    ReturnLong(
        AddC("long",
             DivC("long",
                  MulC("long", SubC("long", Val(x), Val(in_min)),
                               SubC("long", Val(out_max), Val(out_min))),
                  SubC("long", Val(in_max), Val(in_min))),
             Val(out_min)))

\* mutant: the test of run left out
mapESP32_NoGuard(value, inputMin, inputMax, outputMin, outputMax) ==
    LET run   == SubC("long", Val(inputMax), Val(inputMin))
        rise  == SubC("long", Val(outputMax), Val(outputMin))
        delta == SubC("long", Val(value), Val(inputMin))
    IN  ReturnLong(
            AddC("long", DivC("long", MulC("long", delta, rise), run), Val(outputMin)))

\* the event "invalid" marks the early return ("invalid input range")
mapESP32(value, inputMin, inputMax, outputMin, outputMax) ==
    UNION {IF ZIsZero(run.v)
           THEN {[val |-> -1, ev |-> run.ev \cup {"invalid"}]}
           ELSE LET rise  == SubC("long", Val(outputMax), Val(outputMin))
                    delta == SubC("long", Val(value), Val(inputMin))
                IN  ReturnLong(
                        AddC("long",
                             DivC("long", MulC("long", delta, rise), {run}),
                             Val(outputMin)))
           : run \in SubC("long", Val(inputMax), Val(inputMin))}

\* mutant: delta and rise kept in long, so the product is a same-width one
mapLongLong1_SameWidth(x, in_min, in_max, out_min, out_max) ==
    LET delta == SubC("long", Val(x), Val(in_min))
        rise  == SubC("long", Val(out_max), Val(out_min))
        run   == SubC("long", Val(in_max), Val(in_min))
    IN  ReturnLong(
            AddC("long",
                 DivC("long", MulC("long", delta, rise), run),
                 Val(out_min)))

mapLongLong1(x, in_min, in_max, out_min, out_max) ==
    LET delta == SubC("long", Val(x), Val(in_min))
        rise  == SubC("long", Val(out_max), Val(out_min))
        run   == SubC("long", Val(in_max), Val(in_min))
    IN  ReturnLong(
            AddC("long long",
                 DivC("long long", MulC("long long", delta, rise), run),
                 Val(out_min)))

\* mutant: in_min added to the quotient in place of out_min
mapLongLong2_AddInMin(x, in_min, in_max, out_min, out_max) ==
    ReturnLong(
        AddC("long long",
             DivC("long long",
                  MulC("long long", SubC("long", Val(x), Val(in_min)),
                                    SubC("long", Val(out_max), Val(out_min))),
                  SubC("long", Val(in_max), Val(in_min))),
             Val(in_min)))

\* mutant: x measured from in_max
mapLongLong2_FromMax(x, in_min, in_max, out_min, out_max) ==
    ReturnLong(
        AddC("long long",
             DivC("long long",
                  MulC("long long", SubC("long", Val(x), Val(in_max)),
                                    SubC("long", Val(out_max), Val(out_min))),
                  SubC("long", Val(in_max), Val(in_min))),
             Val(out_min)))

\* mutant: the two ranges exchanged in the ratio
mapLongLong2_SwapRatio(x, in_min, in_max, out_min, out_max) ==
    ReturnLong(
        AddC("long long",
             DivC("long long",
                  MulC("long long", SubC("long", Val(x), Val(in_min)),
                                    SubC("long", Val(in_max), Val(in_min))),
                  SubC("long", Val(out_max), Val(out_min))),
             Val(out_min)))

\* mutant: the cast applied to the product, not to its factors
mapLongLong2_CastProduct(x, in_min, in_max, out_min, out_max) ==
    ReturnLong(
        AddC("long long",
             DivC("long long",
                  MulC("long", SubC("long", Val(x), Val(in_min)),
                               SubC("long", Val(out_max), Val(out_min))),
                  SubC("long", Val(in_max), Val(in_min))),
             Val(out_min)))

mapLongLong2(x, in_min, in_max, out_min, out_max) ==
    ReturnLong(
        AddC("long long",
             DivC("long long",
                  MulC("long long", SubC("long", Val(x), Val(in_min)),
                                    SubC("long", Val(out_max), Val(out_min))),
                  SubC("long", Val(in_max), Val(in_min))),
             Val(out_min)))

(***************************************************************************)
(* `float`: IEEE 754 single precision, as the soft-float library of the    *)
(* AVR and the FPU of the ESP32 compute it.  A finite value is             *)
(* (-1)^neg * mag * 2^exp with mag an exact natural below 2^24 (not below  *)
(* 2^23 unless zero); the operands of the sketch stay far from the ends of *)
(* the exponent range, so there are neither subnormals nor overflow to     *)
(* infinity, and every operation rounds to nearest, ties to even.          *)
(***************************************************************************)
Pow2(k) == [i \in 1 .. (k \div 15) |-> 0] \o <<2 ^ (k % 15)>>

RECURSIVE BitLenLimb(_)
BitLenLimb(n) == IF n = 0 THEN 0 ELSE 1 + BitLenLimb(n \div 2)

\* number of bits of a magnitude
BitLen(m) == IF m = <<>> THEN 0 ELSE 15 * (Len(m) - 1) + BitLenLimb(m[Len(m)])

MagShl(m, k) == MagMul(m, Pow2(k))

Float(neg, mag, exp) ==
    [kind |-> "num", neg |-> neg /\ mag # <<>>, mag |-> mag,
     exp |-> IF mag = <<>> THEN 0 ELSE exp]

FInf(neg) == [kind |-> "inf", neg |-> neg, mag |-> <<>>, exp |-> 0]

FNaN == [kind |-> "nan", neg |-> FALSE, mag |-> <<>>, exp |-> 0]

\* (q + rem / den) * 2^exp rounded to 24 bits, for q of 24 bits
RoundEven(neg, q, rem, den, exp) ==
    IF MagCmp(MagAdd(rem, rem), den) > 0
       \/ (MagCmp(MagAdd(rem, rem), den) = 0 /\ LimbAt(q, 1) % 2 = 1)
    THEN (IF BitLen(MagAdd(q, <<1>>)) = 25 THEN Float(neg, Pow2(23), exp + 1)
          ELSE Float(neg, MagAdd(q, <<1>>), exp))
    ELSE Float(neg, q, exp)

\* n / d scaled by 2^s, as numerator and denominator
Scaled(n, d, s) ==
    [num |-> IF s >= 0 THEN MagShl(n, s) ELSE n,
     den |-> IF s >= 0 THEN d ELSE MagShl(d, -s)]

\* (q + rem / den) * 2^exp for q of 24 or 25 bits: a quotient of 25 bits
\* gives its last bit to the remainder
Round24(neg, q, rem, den, exp) ==
    IF BitLen(q) = 25
    THEN RoundEven(neg, MagDiv(q, <<2>>),
                   IF LimbAt(q, 1) % 2 = 1 THEN MagAdd(rem, den) ELSE rem,
                   MagAdd(den, den), exp + 1)
    ELSE RoundEven(neg, q, rem, den, exp)

RoundQuot(neg, q, t, exp) ==
    Round24(neg, q, MagSub(t.num, MagMul(q, t.den)), t.den, exp)

RoundScaled(neg, t, exp) == RoundQuot(neg, MagDiv(t.num, t.den), t, exp)

RoundShift(neg, n, d, e, s) == RoundScaled(neg, Scaled(n, d, s), e - s)

\* the float nearest to (-1)^neg * (n / d) * 2^e, for d # 0: the quotient
\* is scaled to 24 or 25 bits and rounded
RoundRat(neg, n, d, e) ==
    IF n = <<>> THEN Float(FALSE, <<>>, 0)
    ELSE RoundShift(neg, n, d, e, 24 - (BitLen(n) - BitLen(d)))

RoundZ(z, e) == RoundRat(z.neg, z.mag, <<1>>, e)

\* (float) of an integer
FromLong(z) == RoundZ(z, 0)

FMul(a, b) ==
    IF a.kind = "nan" \/ b.kind = "nan" THEN FNaN
    ELSE IF a.kind = "inf" \/ b.kind = "inf"
    THEN (IF (a.kind = "num" /\ a.mag = <<>>) \/ (b.kind = "num" /\ b.mag = <<>>)
          THEN FNaN ELSE FInf(a.neg # b.neg))
    ELSE RoundRat(a.neg # b.neg, MagMul(a.mag, b.mag), <<1>>, a.exp + b.exp)

FDiv(a, b) ==
    IF a.kind = "nan" \/ b.kind = "nan" THEN FNaN
    ELSE IF a.kind = "inf" THEN (IF b.kind = "inf" THEN FNaN ELSE FInf(a.neg # b.neg))
    ELSE IF b.kind = "inf" THEN Float(FALSE, <<>>, 0)
    ELSE IF b.mag = <<>> THEN (IF a.mag = <<>> THEN FNaN ELSE FInf(a.neg # b.neg))
    ELSE RoundRat(a.neg # b.neg, a.mag, b.mag, a.exp - b.exp)

\* a + b for finite a and b, aligned at the exponent e of the smaller
AddAligned(a, b, e) ==
    RoundZ(ZAdd(Z(a.neg, MagShl(a.mag, a.exp - e)),
                Z(b.neg, MagShl(b.mag, b.exp - e))), e)

FAdd(a, b) ==
    IF a.kind = "nan" \/ b.kind = "nan" THEN FNaN
    ELSE IF a.kind = "inf"
    THEN (IF b.kind = "inf" /\ a.neg # b.neg THEN FNaN ELSE a)
    ELSE IF b.kind = "inf" THEN b
    ELSE AddAligned(a, b, IF a.exp < b.exp THEN a.exp ELSE b.exp)

\* a finite float truncated toward zero
FTrunc(a) ==
    IF a.exp >= 0 THEN Z(a.neg, MagShl(a.mag, a.exp))
    ELSE Z(a.neg, MagDiv(a.mag, Pow2(-a.exp)))

\* (float) A
FloatC(A) == {[v |-> FromLong(a.v), ev |-> a.ev] : a \in A}

FMulC(A, B) == {[v |-> FMul(a.v, b.v), ev |-> a.ev \cup b.ev] : a \in A, b \in B}

FDivC(A, B) == {[v |-> FDiv(a.v, b.v), ev |-> a.ev \cup b.ev] : a \in A, b \in B}

FAddC(A, B) == {[v |-> FAdd(a.v, b.v), ev |-> a.ev \cup b.ev] : a \in A, b \in B}

\* mutant: the float rounded to the nearest integer, halves away from zero
ReturnFloat_Round(A) ==
    UNION {IF c.v.kind = "num"
              /\ Fits("long", FTrunc(FAdd(c.v, Float(c.v.neg, <<1>>, -1))))
           THEN {[val |-> ZToInt(FTrunc(FAdd(c.v, Float(c.v.neg, <<1>>, -1)))), ev |-> c.ev]}
           ELSE {[val |-> n, ev |-> c.ev \cup {"cvt.range"}] : n \in {LONG_MIN, 0, LONG_MAX}}
           : c \in A}

\* `return e;` of a float from a function returning long: the fraction is
\* discarded; a value out of the range of long (or an infinity, a NaN) is
\* undefined behaviour, the libraries and FPUs returning an end of the
\* range or zero
ReturnFloat(A) ==
    UNION {IF c.v.kind = "num" /\ Fits("long", FTrunc(c.v))
           THEN {[val |-> ZToInt(FTrunc(c.v)), ev |-> c.ev]}
           ELSE {[val |-> n, ev |-> c.ev \cup {"cvt.range"}] : n \in {LONG_MIN, 0, LONG_MAX}}
           : c \in A}

\* mutant: the check never reports an overflow
SmullOverflow_Never(A, B) ==
    {[v |-> Wrap("long", ZMul(a.v, b.v)), overflow |-> FALSE,
      ev |-> a.ev \cup b.ev] : a \in A, b \in B}

\* mutant: the check always reports an overflow
SmullOverflow_Always(A, B) ==
    {[v |-> Wrap("long", ZMul(a.v, b.v)), overflow |-> TRUE,
      ev |-> a.ev \cup b.ev] : a \in A, b \in B}

\* mutant: the exact product stored, not reduced to long
SmullOverflow_Exact(A, B) ==
    {[v |-> ZMul(a.v, b.v), overflow |-> ~Fits("long", ZMul(a.v, b.v)),
      ev |-> a.ev \cup b.ev] : a \in A, b \in B}

\* __builtin_smull_overflow(a, b, &result): the product computed exactly,
\* stored in result reduced to long, and whether it did not fit
SmullOverflow(A, B) ==
    {[v |-> Wrap("long", ZMul(a.v, b.v)),
      overflow |-> ~Fits("long", ZMul(a.v, b.v)),
      ev |-> a.ev \cup b.ev] : a \in A, b \in B}

\* result / (in_max - in_min) + out_min in long, the tail of the checked
\* candidates
CheckedTail(r, in_min, in_max, out_min) ==
    ReturnLong(
        AddC("long",
             DivC("long", {[v |-> r.v, ev |-> r.ev]},
                          SubC("long", Val(in_max), Val(in_min))),
             Val(out_min)))

mapCheckNoFix(x, in_min, in_max, out_min, out_max) ==
    UNION {CheckedTail(r, in_min, in_max, out_min)
           : r \in SmullOverflow(SubC("long", Val(x), Val(in_min)),
                                 SubC("long", Val(out_max), Val(out_min)))}

mapCheckAndFloatFix1(x, in_min, in_max, out_min, out_max) ==
    UNION {UNION {LET r == CHOOSE p \in SmullOverflow({delta}, {rise}) : TRUE
                  IN  IF r.overflow
                      THEN ReturnFloat(
                               FAddC(FDivC(FMulC(FloatC({delta}), FloatC({rise})),
                                           FloatC(SubC("long", Val(in_max), Val(in_min)))),
                                     FloatC(Val(out_min))))
                      ELSE CheckedTail(r, in_min, in_max, out_min)
                  : rise \in SubC("long", Val(out_max), Val(out_min))}
           : delta \in SubC("long", Val(x), Val(in_min))}

mapCheckAndFloatFix2(x, in_min, in_max, out_min, out_max) ==
    UNION {IF r.overflow
           THEN ReturnFloat(
                    FAddC(FDivC(FMulC(FloatC(SubC("long", Val(x), Val(in_min))),
                                      FloatC(SubC("long", Val(out_max), Val(out_min)))),
                                FloatC(SubC("long", Val(in_max), Val(in_min)))),
                          FloatC(Val(out_min))))
           ELSE CheckedTail(r, in_min, in_max, out_min)
           : r \in SmullOverflow(SubC("long", Val(x), Val(in_min)),
                                 SubC("long", Val(out_max), Val(out_min)))}

mapCheckAndLongLongFix1(x, in_min, in_max, out_min, out_max) ==
    UNION {UNION {LET r == CHOOSE p \in SmullOverflow({delta}, {rise}) : TRUE
                  IN  IF r.overflow
                      THEN ReturnLong(
                               AddC("long long",
                                    DivC("long long",
                                         MulC("long long", {delta}, {rise}),
                                         SubC("long", Val(in_max), Val(in_min))),
                                    Val(out_min)))
                      ELSE CheckedTail(r, in_min, in_max, out_min)
                  : rise \in SubC("long", Val(out_max), Val(out_min))}
           : delta \in SubC("long", Val(x), Val(in_min))}

mapCheckAndLongLongFix2(x, in_min, in_max, out_min, out_max) ==
    UNION {IF r.overflow
           THEN ReturnLong(
                    AddC("long long",
                         DivC("long long",
                              MulC("long long", SubC("long", Val(x), Val(in_min)),
                                                SubC("long", Val(out_max), Val(out_min))),
                              SubC("long", Val(in_max), Val(in_min))),
                         Val(out_min)))
           ELSE CheckedTail(r, in_min, in_max, out_min)
           : r \in SmullOverflow(SubC("long", Val(x), Val(in_min)),
                                 SubC("long", Val(out_max), Val(out_min)))}

mapFloat1(x, in_min, in_max, out_min, out_max) ==
    LET out   == FloatC(SubC("long", Val(out_max), Val(out_min)))
        in    == FloatC(SubC("long", Val(in_max), Val(in_min)))
        delta == FloatC(SubC("long", Val(x), Val(in_min)))
    IN  ReturnFloat(FAddC(FDivC(FMulC(delta, out), in), FloatC(Val(out_min))))

mapFloat2(x, in_min, in_max, out_min, out_max) ==
    ReturnFloat(
        FAddC(FDivC(FMulC(FloatC(SubC("long", Val(x), Val(in_min))),
                          FloatC(SubC("long", Val(out_max), Val(out_min)))),
                    FloatC(SubC("long", Val(in_max), Val(in_min)))),
              FloatC(Val(out_min))))

(***************************************************************************)
(* The caller: one call of one candidate on one argument tuple, and the    *)
(* mapping back of a returned value.                                       *)
(***************************************************************************)
VARIABLES
    args,     \* the five arguments of the call
    f,        \* the candidate called ("none" before the call)
    result,   \* the value returned
    ev,       \* what happened in the call: overflows, division by zero
    pc,       \* "ready", "returned", "trapped", "inverted"
    back,     \* the result mapped back from the target to the source range
    backEv,   \* what happened in the call that mapped it back
    g,        \* the candidate of a second call on the same ranges ("none")
    x2,       \* the value passed to the second call
    other,    \* the value the second call returned
    otherEv,  \* what happened in the second call
    calls,    \* concurrent callers: position, candidate, arguments, result
    locals,   \* the automatic variables run, rise, delta of each call
    log,      \* the error lines written with log_e, by caller
    esp32,    \* the sketch is built for the ESP32 (#if defined(ESP32))
    setupPc,  \* position of setup(): "clear", "run1", "run2", "show", ...
    runNo,    \* the counter i of the loop over RUN_COUNT
    tcnt,     \* the counter over the two input sets
    fcnt,     \* the counter over the entries of fPtr
    rTable,   \* float r[2][FUNCS]
    added,    \* how many times run1 / run2 was added to each entry of r
    invoked,  \* invocations of the candidate in the last run1 / run2
    serial,   \* the lines printed to Serial
    ms        \* the milliseconds one run1 / one run2 takes

second == <<g, x2, other, otherEv>>

single == <<args, f, result, ev, pc, back, backEv, second>>

callers == <<calls, locals, log, esp32>>

bench == <<setupPc, runNo, tcnt, fcnt, rTable, added, invoked, serial, ms>>

vars == <<single, callers, bench>>

NoSecondCall == g = "none" /\ x2 = 0 /\ other = 0 /\ otherEv = {}

MaxX == 2

MaxEnd == 1

SmallArgs ==
    [x : -MaxX .. MaxX, in_min : -MaxEnd .. MaxEnd, in_max : -MaxEnd .. MaxEnd,
     out_min : -MaxEnd .. MaxEnd, out_max : -MaxEnd .. MaxEnd]

\* scales the small operands so that products leave 32 bits and
\* differences do not
Scale == 3 * LimbBase + 1

Extreme == {LONG_MIN, -1, 0, LONG_MAX}

Args(S) == [x : S, in_min : S, in_max : S, out_min : S, out_max : S]

Tuple(t) ==
    [x |-> t[1], in_min |-> t[2], in_max |-> t[3], out_min |-> t[4], out_max |-> t[5]]

ScaledArgs ==
    {[x |-> Scale * a.x, in_min |-> Scale * a.in_min, in_max |-> Scale * a.in_max,
      out_min |-> Scale * a.out_min, out_max |-> Scale * a.out_max] : a \in SmallArgs}

\* the argument tuples of run1 and run2, in order
Run1Args ==
    << <<9000000, 0, 10000000, 0, 1000>>,
       <<9000000, 10000000, 0, 1000, 0>>,
       <<5000000, 0, 10000000, 0, 10000000>>,
       <<7500000, 10000000, 0, 0, 10000000>>,
       <<5000000, 0, 10000000, 10000000, 0>>,
       <<7500000, 0, 10000000, 10000000, 0>>,
       <<5000000, 0, 10000000, 0, 1000>>,
       <<7500000, 0, 10000000, 0, 1000>>,
       <<500, 0, 1000, 0, 10000000>>,
       <<750, 0, 1000, 0, 10000000>> >>

Run2Args ==
    << <<1000, 0, 1023, 0, 100>>,
       <<1000, 1023, 0, 100, 0>>,
       <<200, 0, 360, -255, 255>>,
       <<68, 0, 100, 0, 1023>>,
       <<68, 0, 100, -255, 255>>,
       <<7500, 0, 10000, 10000, 0>>,
       <<5000, 0, 10000, 10000, 0>>,
       <<7500, 0, 10000, 0, 10000>>,
       <<5000, 0, 10000, 0, 10000>>,
       <<20, 100, 0, 0, 100>> >>

RunArgs == {Tuple(Run1Args[i]) : i \in 1..Len(Run1Args)}
               \cup {Tuple(Run2Args[i]) : i \in 1..Len(Run2Args)}

Inputs == SmallArgs \cup ScaledArgs \cup Args(Extreme) \cup RunArgs

\* entries of fPtr
FUNCS == 12

NumCallers == 2

Callers == 1 .. NumCallers

\* no call in progress
Idle ==
    [pc |-> "idle", fn |-> "none", a |-> Tuple(<<0, 0, 0, 0, 0>>), val |-> 0,
     ev |-> {}, mixed |-> FALSE]

NoLocal == [v |-> IntToZ(0), ev |-> {}]

NoFrame == [run |-> NoLocal, rise |-> NoLocal, delta |-> NoLocal]

NoCallers ==
    /\ calls = [c \in Callers |-> Idle]
    /\ locals = [c \in Callers |-> NoFrame]
    /\ log = <<>>
    /\ esp32 = FALSE

FZero == Float(FALSE, <<>>, 0)

Cleared == [t \in 0 .. 1 |-> [k \in 0 .. FUNCS - 1 |-> FZero]]

NoBench ==
    /\ setupPc = "off"
    /\ runNo = 0
    /\ tcnt = 0
    /\ fcnt = 0
    /\ rTable = Cleared
    /\ added = [t \in 0 .. 1 |-> [k \in 0 .. FUNCS - 1 |-> 0]]
    /\ invoked = 0
    /\ serial = <<>>
    /\ ms = [t \in 0 .. 1 |-> 0]

Init ==
    /\ args \in Inputs
    /\ f = "none"
    /\ result = 0
    /\ ev = {}
    /\ pc = "ready"
    /\ back = 0
    /\ backEv = {}
    /\ NoSecondCall
    /\ NoCallers
    /\ NoBench

\* the call f(x, in_min, in_max, out_min, out_max) with outcome o
Call(name, o) ==
    /\ pc = "ready"
    /\ f' = name
    /\ result' = o.val
    /\ ev' = o.ev
    /\ pc' = IF "trap" \in o.ev THEN "trapped" ELSE "returned"
    /\ UNCHANGED <<args, back, backEv, second, callers, bench>>

CallMapArduino ==
    /\ pc = "ready"
    /\ \E o \in mapArduino(args.x, args.in_min, args.in_max, args.out_min, args.out_max) :
           Call("mapArduino", o)

CallMapESP32 ==
    /\ pc = "ready"
    /\ \E o \in mapESP32(args.x, args.in_min, args.in_max, args.out_min, args.out_max) :
           Call("mapESP32", o)

CallMapLongLong1 ==
    /\ pc = "ready"
    /\ \E o \in mapLongLong1(args.x, args.in_min, args.in_max, args.out_min, args.out_max) :
           Call("mapLongLong1", o)

CallMapLongLong2 ==
    /\ pc = "ready"
    /\ \E o \in mapLongLong2(args.x, args.in_min, args.in_max, args.out_min, args.out_max) :
           Call("mapLongLong2", o)

\* map(map(v, a, b, c, d), c, d, a, b) with the overflow-safe candidate
MapBack ==
    /\ pc = "returned"
    /\ f = "mapLongLong2"
    /\ \E o \in mapLongLong2(result, args.out_min, args.out_max, args.in_min, args.in_max) :
        /\ back' = o.val
        /\ backEv' = o.ev
        /\ pc' = IF "trap" \in o.ev THEN "trapped" ELSE "inverted"
    /\ UNCHANGED <<args, f, result, ev, second, callers, bench>>

Next ==
    \/ CallMapArduino
    \/ CallMapESP32
    \/ CallMapLongLong1
    \/ CallMapLongLong2
    \/ MapBack

Spec == Init /\ [][Next]_vars

(***************************************************************************)
(* The detailed runs: every candidate of fPtr is called on the same        *)
(* argument tuple (run1 and run2 print the results side by side), and the  *)
(* overflow-safe candidates on a second, larger value.                     *)
(***************************************************************************)
ExtremeArgs ==
    [x : Extreme, in_min : {-1, 0}, in_max : Extreme, out_min : {-1, 0},
     out_max : Extreme]

PairInputs == SmallArgs \cup ScaledArgs \cup ExtremeArgs \cup RunArgs

PairInit ==
    /\ args \in PairInputs
    /\ f = "none"
    /\ result = 0
    /\ ev = {}
    /\ pc = "ready"
    /\ back = 0
    /\ backEv = {}
    /\ NoSecondCall
    /\ NoCallers
    /\ NoBench

CallMapCheckNoFix ==
    /\ pc = "ready"
    /\ \E o \in mapCheckNoFix(args.x, args.in_min, args.in_max, args.out_min, args.out_max) :
           Call("mapCheckNoFix", o)

CallMapCheckAndFloatFix1 ==
    /\ pc = "ready"
    /\ \E o \in mapCheckAndFloatFix1(args.x, args.in_min, args.in_max, args.out_min, args.out_max) :
           Call("mapCheckAndFloatFix1", o)

CallMapCheckAndFloatFix2 ==
    /\ pc = "ready"
    /\ \E o \in mapCheckAndFloatFix2(args.x, args.in_min, args.in_max, args.out_min, args.out_max) :
           Call("mapCheckAndFloatFix2", o)

CallMapCheckAndLongLongFix1 ==
    /\ pc = "ready"
    /\ \E o \in mapCheckAndLongLongFix1(args.x, args.in_min, args.in_max, args.out_min, args.out_max) :
           Call("mapCheckAndLongLongFix1", o)

CallMapCheckAndLongLongFix2 ==
    /\ pc = "ready"
    /\ \E o \in mapCheckAndLongLongFix2(args.x, args.in_min, args.in_max, args.out_min, args.out_max) :
           Call("mapCheckAndLongLongFix2", o)

CallMapFloat1 ==
    /\ pc = "ready"
    /\ \E o \in mapFloat1(args.x, args.in_min, args.in_max, args.out_min, args.out_max) :
           Call("mapFloat1", o)

CallMapFloat2 ==
    /\ pc = "ready"
    /\ \E o \in mapFloat2(args.x, args.in_min, args.in_max, args.out_min, args.out_max) :
           Call("mapFloat2", o)

\* the second call, of candidate name on value x, with outcome o
SecondCall(name, x, o) ==
    /\ pc = "returned"
    /\ g' = name
    /\ x2' = x
    /\ other' = o.val
    /\ otherEv' = o.ev
    /\ pc' = IF "trap" \in o.ev THEN "trapped" ELSE "compared"
    /\ UNCHANGED <<args, f, result, ev, back, backEv, callers, bench>>

\* mapLongLong2, the last entry of fPtr, on the arguments of another entry
CompareMapLongLong2 ==
    /\ pc = "returned"
    /\ f # "mapLongLong2"
    /\ \E o \in mapLongLong2(args.x, args.in_min, args.in_max, args.out_min, args.out_max) :
           SecondCall("mapLongLong2", args.x, o)

\* mapArduino on the arguments of the two candidates that keep its product
CompareMapArduino ==
    /\ pc = "returned"
    /\ f \in {"mapESP32", "mapCheckNoFix"}
    /\ \E o \in mapArduino(args.x, args.in_min, args.in_max, args.out_min, args.out_max) :
           SecondCall("mapArduino", args.x, o)

\* larger values for a second call
Larger(x) ==
    {x + d : d \in {d \in {1, 2, Scale} : x <= LONG_MAX - d}}

CallAgainMapLongLong1 ==
    /\ pc = "returned"
    /\ f = "mapLongLong1"
    /\ \E x \in Larger(args.x) :
         \E o \in mapLongLong1(x, args.in_min, args.in_max, args.out_min, args.out_max) :
             SecondCall("mapLongLong1", x, o)

CallAgainMapLongLong2 ==
    /\ pc = "returned"
    /\ f = "mapLongLong2"
    /\ \E x \in Larger(args.x) :
         \E o \in mapLongLong2(x, args.in_min, args.in_max, args.out_min, args.out_max) :
             SecondCall("mapLongLong2", x, o)

PairNext ==
    \/ CallMapArduino
    \/ CallMapESP32
    \/ CallMapCheckNoFix
    \/ CallMapCheckAndFloatFix1
    \/ CallMapCheckAndFloatFix2
    \/ CallMapCheckAndLongLongFix1
    \/ CallMapCheckAndLongLongFix2
    \/ CallMapFloat1
    \/ CallMapFloat2
    \/ CallMapLongLong1
    \/ CallMapLongLong2
    \/ CompareMapLongLong2
    \/ CompareMapArduino
    \/ CallAgainMapLongLong1
    \/ CallAgainMapLongLong2

SpecPair == PairInit /\ [][PairNext]_vars

(***************************************************************************)
(* Concurrent callers.  Every call has its arguments and its automatic     *)
(* variables in a frame of its own; the callers take the statements of     *)
(* their calls in any order.  mapESP32 and mapLongLong1 keep run, rise and *)
(* delta in locals and are taken statement by statement (the label is the  *)
(* source line), mapLongLong2 is a single return statement.  The only      *)
(* object outside the frames that a candidate touches is the log that      *)
(* mapESP32 writes with log_e on an ESP32 build.  A divide exception stops *)
(* the sketch, and with it every caller.                                   *)
(***************************************************************************)
CallerCandidates == {"mapESP32", "mapLongLong1", "mapLongLong2"}

CallerArgs ==
    {Tuple(<<1, 0, 0, 0, 1>>),
     Tuple(<<750, 0, 1000, 0, 10000000>>)}

CallersInit ==
    /\ args = Tuple(<<0, 0, 0, 0, 0>>)
    /\ f = "none"
    /\ result = 0
    /\ ev = {}
    /\ pc = "ready"
    /\ back = 0
    /\ backEv = {}
    /\ NoSecondCall
    /\ calls = [c \in Callers |-> Idle]
    /\ locals = [c \in Callers |-> NoFrame]
    /\ log = <<>>
    /\ esp32 \in BOOLEAN
    /\ NoBench

\* mutant: one frame for all the calls (static locals)
Slot_Static(c) == 1

\* the frame of the call of caller c
Slot(c) == c

Local(c, name) == locals[Slot(c)][name]

Halted == \E c \in Callers : calls[c].pc = "trapped"

InCall(c) == calls[c].pc \notin {"idle", "done", "trapped"}

\* caller c is about to take the statement at label
At(c, label) == ~Halted /\ calls[c].pc = label

\* caller c takes a statement while another call is in progress
Mixed(c) == calls[c].mixed \/ \E d \in Callers \ {c} : InCall(d)

Entry(fn) ==
    CASE fn = "mapESP32" -> "L190"
      [] fn = "mapLongLong1" -> "L268"
      [] fn = "mapLongLong2" -> "L275"

Invoke(c) ==
    /\ At(c, "idle")
    /\ \E fn \in CallerCandidates, a \in CallerArgs :
           calls' = [calls EXCEPT ![c] = [pc |-> Entry(fn), fn |-> fn, a |-> a,
                                          val |-> 0, ev |-> {}, mixed |-> Mixed(c)]]
    /\ UNCHANGED <<locals, log, esp32, single, bench>>

\* a declaration with initialiser: the local `name` gets o, control goes on
Declare(c, name, o, next) ==
    /\ locals' = [locals EXCEPT ![Slot(c)][name] = o]
    /\ calls' = [calls EXCEPT ![c].pc = next, ![c].mixed = Mixed(c)]
    /\ UNCHANGED <<log, esp32, single, bench>>

\* return of outcome o
Return(c, o) ==
    /\ calls' = [calls EXCEPT ![c].pc = IF "trap" \in o.ev THEN "trapped" ELSE "done",
                              ![c].val = o.val, ![c].ev = o.ev,
                              ![c].mixed = Mixed(c)]
    /\ UNCHANGED <<locals, log, esp32, single, bench>>

\* const long run = inputMax - inputMin;
MapESP32_L190(c) ==
    /\ At(c, "L190")
    /\ \E o \in SubC("long", Val(calls[c].a.in_max), Val(calls[c].a.in_min)) :
           Declare(c, "run", o, "L191")

\* if( run == 0 )
MapESP32_L191(c) ==
    /\ At(c, "L191")
    /\ calls' = [calls EXCEPT ![c].pc = IF ZIsZero(Local(c, "run").v) THEN "L193"
                                        ELSE "L197",
                              ![c].mixed = Mixed(c)]
    /\ UNCHANGED <<locals, log, esp32, single, bench>>

\* log_e( "spMap(): invalid input range, min == max" ), compiled for ESP32 only
MapESP32_L193(c) ==
    /\ At(c, "L193")
    /\ log' = IF esp32 THEN Append(log, c) ELSE log
    /\ calls' = [calls EXCEPT ![c].pc = "L195", ![c].mixed = Mixed(c)]
    /\ UNCHANGED <<locals, esp32, single, bench>>

\* return -1;
MapESP32_L195(c) ==
    /\ At(c, "L195")
    /\ Return(c, [val |-> -1, ev |-> Local(c, "run").ev \cup {"invalid"}])

\* const long rise = outputMax - outputMin;
MapESP32_L197(c) ==
    /\ At(c, "L197")
    /\ \E o \in SubC("long", Val(calls[c].a.out_max), Val(calls[c].a.out_min)) :
           Declare(c, "rise", o, "L198")

\* const long delta = value - inputMin;
MapESP32_L198(c) ==
    /\ At(c, "L198")
    /\ \E o \in SubC("long", Val(calls[c].a.x), Val(calls[c].a.in_min)) :
           Declare(c, "delta", o, "L200")

\* return ( delta * rise ) / run + outputMin;
MapESP32_L200(c) ==
    /\ At(c, "L200")
    /\ \E o \in ReturnLong(
                  AddC("long",
                       DivC("long",
                            MulC("long", {Local(c, "delta")}, {Local(c, "rise")}),
                            {Local(c, "run")}),
                       Val(calls[c].a.out_min))) :
           Return(c, o)

\* long long delta = x - in_min;
MapLongLong1_L268(c) ==
    /\ At(c, "L268")
    /\ \E o \in SubC("long", Val(calls[c].a.x), Val(calls[c].a.in_min)) :
           Declare(c, "delta", o, "L269")

\* long long rise = out_max - out_min;
MapLongLong1_L269(c) ==
    /\ At(c, "L269")
    /\ \E o \in SubC("long", Val(calls[c].a.out_max), Val(calls[c].a.out_min)) :
           Declare(c, "rise", o, "L270")

\* long run = in_max - in_min;
MapLongLong1_L270(c) ==
    /\ At(c, "L270")
    /\ \E o \in SubC("long", Val(calls[c].a.in_max), Val(calls[c].a.in_min)) :
           Declare(c, "run", o, "L271")

\* return ( delta * rise ) / run + out_min;
MapLongLong1_L271(c) ==
    /\ At(c, "L271")
    /\ \E o \in ReturnLong(
                  AddC("long long",
                       DivC("long long",
                            MulC("long long", {Local(c, "delta")}, {Local(c, "rise")}),
                            {Local(c, "run")}),
                       Val(calls[c].a.out_min))) :
           Return(c, o)

\* the return statement of mapLongLong2
MapLongLong2_L275(c) ==
    /\ At(c, "L275")
    /\ \E o \in mapLongLong2(calls[c].a.x, calls[c].a.in_min, calls[c].a.in_max,
                            calls[c].a.out_min, calls[c].a.out_max) :
           Return(c, o)

CallersNext ==
    \E c \in Callers :
        \/ Invoke(c)
        \/ MapESP32_L190(c)
        \/ MapESP32_L191(c)
        \/ MapESP32_L193(c)
        \/ MapESP32_L195(c)
        \/ MapESP32_L197(c)
        \/ MapESP32_L198(c)
        \/ MapESP32_L200(c)
        \/ MapLongLong1_L268(c)
        \/ MapLongLong1_L269(c)
        \/ MapLongLong1_L270(c)
        \/ MapLongLong1_L271(c)
        \/ MapLongLong2_L275(c)

SpecCallers == CallersInit /\ [][CallersNext]_vars

(***************************************************************************)
(* TEST RUNNER and CORE: setup() from its "average several runs" on.  A    *)
(* step is one call of run1 or run2 (with the statement of setup() that    *)
(* uses what it returns), one pass of the "show results" loop, or the      *)
(* "clear" loop.  run1 and run2 return the milliseconds they took; these   *)
(* come from the clock of the board and are chosen once per input set.     *)
(* serial holds the calls of showHeader (kind "time") and the lines of the *)
(* detailed runs (kind "data", the ten results left out: they are the      *)
(* values the candidates return) and the empty lines.                      *)
(***************************************************************************)
RUN_COUNT == 100

\* for( int i = 0 ; i < 1000 ; i++ )
Iterations == 1000

MaxMs == 1

\* the array r before the "clear" loop: indeterminate
Indeterminate ==
    {Cleared, [t \in 0 .. 1 |-> [k \in 0 .. FUNCS - 1 |-> FromLong(IntToZ(1))]]}

BenchInit ==
    /\ args = Tuple(<<0, 0, 0, 0, 0>>)
    /\ f = "none"
    /\ result = 0
    /\ ev = {}
    /\ pc = "ready"
    /\ back = 0
    /\ backEv = {}
    /\ NoSecondCall
    /\ NoCallers
    /\ setupPc = "clear"
    /\ runNo = 0
    /\ tcnt = 0
    /\ fcnt = 0
    /\ rTable \in Indeterminate
    /\ added = [t \in 0 .. 1 |-> [k \in 0 .. FUNCS - 1 |-> 0]]
    /\ invoked = 0
    /\ serial = <<>>
    /\ ms \in [0 .. 1 -> 0 .. MaxMs]

\* mutant: one invocation in each pass of the loop
RunCalls_OnePerPass(body) == Iterations

\* invocations of f in the passes lo .. hi - 1 of the loop of run1 / run2,
\* each pass making the calls of body
RECURSIVE RunLoop(_, _, _)
RunLoop(lo, hi, body) ==
    IF hi - lo <= 0 THEN 0
    ELSE IF hi - lo = 1 THEN Len(body)
    ELSE RunLoop(lo, lo + (hi - lo) \div 2, body)
             + RunLoop(lo + (hi - lo) \div 2, hi, body)

\* invocations of f in one call of run1 / run2
RunCalls(body) == RunLoop(0, Iterations, body)

Line(kind, run, label, value, runs) ==
    [kind |-> kind, run |-> run, label |-> label, value |-> value, runs |-> runs]

Blank == Line("blank", 0, 0, FZero, 0)

LastEntry == fcnt = FUNCS - 1

NextEntry == IF LastEntry THEN 0 ELSE fcnt + 1

\* the lines of a loop over fPtr: after the last entry, Serial.println()
Println(lines) == IF LastEntry THEN Append(lines, Blank) ELSE lines

\* r[t][fcnt] += run1( ... ) for t = 0, run2( ... ) for t = 1
AddRun(t) ==
    /\ rTable' = [rTable EXCEPT ![t][fcnt] = FAdd(@, FromLong(IntToZ(ms[t])))]
    /\ added' = [added EXCEPT ![t][fcnt] = @ + 1]
    /\ invoked' = RunCalls(IF t = 0 THEN Run1Args ELSE Run2Args)
    /\ fcnt' = NextEntry

Clear ==
    /\ setupPc = "clear"
    /\ rTable' = Cleared
    /\ setupPc' = "run1"
    /\ UNCHANGED <<runNo, tcnt, fcnt, added, invoked, serial, ms, single, callers>>

TimedRun1 ==
    /\ setupPc = "run1"
    /\ AddRun(0)
    /\ setupPc' = IF LastEntry THEN "run2" ELSE "run1"
    /\ UNCHANGED <<runNo, tcnt, serial, ms, single, callers>>

TimedRun2 ==
    /\ setupPc = "run2"
    /\ AddRun(1)
    /\ runNo' = IF LastEntry THEN runNo + 1 ELSE runNo
    /\ setupPc' = IF ~LastEntry THEN "run2"
                  ELSE IF runNo + 1 < RUN_COUNT THEN "run1" ELSE "show"
    /\ UNCHANGED <<tcnt, serial, ms, single, callers>>

\* r[tcnt][fcnt] /= RUN_COUNT; showHeader( tcnt+1, fLabel[fcnt], r[tcnt][fcnt] );
ShowAverage ==
    /\ setupPc = "show"
    /\ rTable' = [rTable EXCEPT ![tcnt][fcnt] = FDiv(@, FromLong(IntToZ(RUN_COUNT)))]
    /\ serial' = Println(Append(serial, Line("time", tcnt + 1, fcnt,
                                             rTable'[tcnt][fcnt], added[tcnt][fcnt])))
    /\ fcnt' = NextEntry
    /\ tcnt' = IF LastEntry THEN (tcnt + 1) % 2 ELSE tcnt
    /\ setupPc' = IF LastEntry /\ tcnt = 1 THEN "detail1" ELSE "show"
    /\ UNCHANGED <<runNo, added, invoked, ms, single, callers>>

\* r[0][fcnt] += run1( fLabel[fcnt], fPtr[fcnt], 2 );
DetailRun1 ==
    /\ setupPc = "detail1"
    /\ AddRun(0)
    /\ serial' = Println(Append(serial, Line("data", 1, fcnt, FZero, 0)))
    /\ setupPc' = IF LastEntry THEN "detail2" ELSE "detail1"
    /\ UNCHANGED <<runNo, tcnt, ms, single, callers>>

\* r[1][fcnt] += run2( fLabel[fcnt], fPtr[fcnt], 2 );
DetailRun2 ==
    /\ setupPc = "detail2"
    /\ AddRun(1)
    /\ serial' = Println(Append(serial, Line("data", 2, fcnt, FZero, 0)))
    /\ setupPc' = IF LastEntry THEN "done" ELSE "detail2"
    /\ UNCHANGED <<runNo, tcnt, ms, single, callers>>

BenchNext ==
    \/ Clear
    \/ TimedRun1
    \/ TimedRun2
    \/ ShowAverage
    \/ DetailRun1
    \/ DetailRun2

SpecBench == BenchInit /\ [][BenchNext]_vars

(***************************************************************************)
(* The mathematical mapping, over the exact integers.                      *)
(***************************************************************************)
TrueDelta == ZSub(IntToZ(args.x), IntToZ(args.in_min))

TrueRise == ZSub(IntToZ(args.out_max), IntToZ(args.out_min))

TrueRun == ZSub(IntToZ(args.in_max), IntToZ(args.in_min))

TrueProduct == ZMul(TrueDelta, TrueRise)

\* q is p / d truncated toward zero: p = q * d + rem with |rem| < |d| and
\* rem zero or of the sign of p
IsTruncQuot(q, p, d) ==
    LET rem == ZSub(p, ZMul(q, d))
    IN  /\ MagCmp(rem.mag, d.mag) < 0
        /\ ZIsZero(rem) \/ rem.neg = p.neg

\* r is trunc((x - in_min) * (out_max - out_min) / (in_max - in_min)) + out_min
IsTrueResult(r) ==
    IsTruncQuot(ZSub(IntToZ(r), IntToZ(args.out_min)), TrueProduct, TrueRun)

TrueResult == ZAdd(ZQuot(TrueProduct, TrueRun), IntToZ(args.out_min))

DiffsFit ==
    /\ Fits("long", TrueDelta)
    /\ Fits("long", TrueRise)
    /\ Fits("long", TrueRun)

Degenerate == args.in_min = args.in_max

\* candidate name has been called and has returned
Returned(name) == f = name /\ "trap" \notin ev

(***************************************************************************)
(* C1: for operands with in_max # in_min whose three differences and whose *)
(* true result fit in 32 bits, mapLongLong1 and mapLongLong2 return        *)
(* exactly trunc((x-in_min)*(out_max-out_min)/(in_max-in_min)) + out_min   *)
(* of the unbounded integers.                                              *)
(***************************************************************************)
C1_LongLongExact ==
    (/\ f \in {"mapLongLong1", "mapLongLong2"}
     /\ ~Degenerate
     /\ DiffsFit
     /\ Fits("long", TrueResult))
    => /\ "trap" \notin ev
       /\ IsTrueResult(result)

\* mapLongLong1 has returned an inexact negative quotient of a product that
\* does not fit 32 bits
C1_Witness ==
    /\ Returned("mapLongLong1")
    /\ ~Degenerate
    /\ DiffsFit
    /\ Fits("long", TrueResult)
    /\ ~Fits("long", TrueProduct)
    /\ TrueProduct.neg # TrueRun.neg
    /\ ~ZIsZero(ZSub(TrueProduct, ZMul(ZQuot(TrueProduct, TrueRun), TrueRun)))
    /\ IsTrueResult(result)

(***************************************************************************)
(* C2: with 32-bit operands mapLongLong1 and mapLongLong2 return the       *)
(* literal results 900, 7500000, 97, 2500000 and 80 of the five scenarios. *)
(***************************************************************************)
Scenarios ==
    { <<Tuple(<<9000000, 0, 10000000, 0, 1000>>), 900>>,
      <<Tuple(<<750, 0, 1000, 0, 10000000>>), 7500000>>,
      <<Tuple(<<1000, 0, 1023, 0, 100>>), 97>>,
      <<Tuple(<<7500000, 10000000, 0, 0, 10000000>>), 2500000>>,
      <<Tuple(<<20, 100, 0, 0, 100>>), 80>> }

C2_LiteralScenarios ==
    \A sc \in Scenarios :
        (f \in {"mapLongLong1", "mapLongLong2"} /\ args = sc[1])
        => ("trap" \notin ev /\ result = sc[2])

C2_Witness ==
    /\ Returned("mapLongLong2")
    /\ args = Tuple(<<750, 0, 1000, 0, 10000000>>)
    /\ result = 7500000

(***************************************************************************)
(* C3, as claimed: for every operand combination with in_max # in_min,     *)
(* however extreme, mapLongLong2 returns the exact truncating-division     *)
(* result of the true mathematical expression.                             *)
(***************************************************************************)
C3_ExactHoweverExtreme ==
    (f = "mapLongLong2" /\ ~Degenerate)
    => /\ "trap" \notin ev
       /\ IsTrueResult(result)

(***************************************************************************)
(* C3, amended: for every operand combination with in_max # in_min whose   *)
(* three differences fit in 32 bits, nothing in mapLongLong2 overflows     *)
(* (neither the differences nor the 64-bit product, quotient and sum), and *)
(* the value returned is the exact truncating-division result whenever     *)
(* that result fits in 32 bits.                                            *)
(***************************************************************************)
C3_ExactWhenDifferencesFit ==
    (f = "mapLongLong2" /\ ~Degenerate /\ DiffsFit)
    => /\ ev = {}
       /\ Fits("long", TrueResult) => result = ZToInt(TrueResult)

\* both ranges span 0 .. LONG_MAX and x is LONG_MAX: the product is 2^62
C3_Witness ==
    /\ Returned("mapLongLong2")
    /\ args.x = LONG_MAX
    /\ ~Degenerate
    /\ DiffsFit
    /\ ~Fits("long", TrueProduct)
    /\ ev = {}
    /\ Fits("long", TrueResult)
    /\ result = LONG_MAX

(***************************************************************************)
(* C4, as claimed: called on a degenerate range (in_min = in_max),         *)
(* mapLongLong1 and mapLongLong2 return the InvalidRange signal -1 and     *)
(* never divide by zero.                                                   *)
(***************************************************************************)
C4_DegenerateSignalled ==
    (f \in {"mapLongLong1", "mapLongLong2"} /\ Degenerate)
    => /\ "div0" \notin ev
       /\ "trap" \notin ev
       /\ result = -1

(***************************************************************************)
(* C5, as claimed: the value mapESP32 returns for a degenerate range, -1,  *)
(* is never returned for an input with in_min # in_max.                    *)
(***************************************************************************)
C5_SentinelDistinct ==
    (Returned("mapESP32") /\ ~Degenerate) => result # -1

InRange(v, a, b) == (a <= v /\ v <= b) \/ (b <= v /\ v <= a)

IdentityCall ==
    /\ f = "mapLongLong2"
    /\ ~Degenerate
    /\ args.out_min = args.in_min
    /\ args.out_max = args.in_max
    /\ InRange(args.x, args.in_min, args.in_max)

Within1(v, w) == MagCmp(ZSub(IntToZ(v), IntToZ(w)).mag, <<1>>) <= 0

\* v is in the range of a and b and at least 2 away from both ends
Interior(v, a, b) ==
    /\ InRange(v, a, b)
    /\ ~Within1(v, a)
    /\ ~Within1(v, b)

(***************************************************************************)
(* C8, as claimed: for a # b, c # d and v in the source range and not near *)
(* its ends, map(map(v, a, b, c, d), c, d, a, b) differs from v by at most *)
(* 1.  Read in the claim's favour: only round trips in which nothing       *)
(* overflowed are held to it.                                              *)
(***************************************************************************)
C8_InversionWithin1 ==
    (/\ pc = "inverted"
     /\ ~Degenerate
     /\ args.out_min # args.out_max
     /\ Interior(args.x, args.in_min, args.in_max)
     /\ ev = {}
     /\ backEv = {})
    => Within1(back, args.x)

(***************************************************************************)
(* C8, amended: for a # b, c # d with the target range at least as wide as *)
(* the source range (|d - c| >= |b - a|), the differences fitting 32 bits, *)
(* and v anywhere in the source range, the round trip overflows nowhere    *)
(* and map(map(v, a, b, c, d), c, d, a, b) differs from v by at most 1.    *)
(***************************************************************************)
C8_InversionIntoWiderRange ==
    (/\ f = "mapLongLong2"
     /\ pc \in {"inverted", "trapped"}
     /\ "trap" \notin ev
     /\ ~Degenerate
     /\ DiffsFit
     /\ MagCmp(TrueRise.mag, TrueRun.mag) >= 0
     /\ InRange(args.x, args.in_min, args.in_max))
    => /\ pc = "inverted"
       /\ backEv = {}
       /\ Within1(back, args.x)

\* a lossy round trip of a value away from the ends
C8_Witness ==
    /\ pc = "inverted"
    /\ ~Degenerate
    /\ DiffsFit
    /\ MagCmp(TrueRise.mag, TrueRun.mag) > 0
    /\ Interior(args.x, args.in_min, args.in_max)
    /\ backEv = {}
    /\ back # args.x
    /\ Within1(back, args.x)

(***************************************************************************)
(* C9: the quotient (x-in_min)*(out_max-out_min)/(in_max-in_min) is        *)
(* truncated toward zero, not floored and not rounded, before out_min is   *)
(* added, whatever the signs of product and divisor: whenever nothing      *)
(* overflows 32 bits, mapArduino and mapLongLong2 return the truncated     *)
(* quotient plus out_min; map(1000, 1023, 0, 100, 0) = 98 and              *)
(* map(200, 0, 360, -255, 255) = 28.                                       *)
(***************************************************************************)
TruncExamples ==
    { <<Tuple(<<1000, 1023, 0, 100, 0>>), 98>>,
      <<Tuple(<<200, 0, 360, -255, 255>>), 28>> }

C9_TruncatedTowardZero ==
    /\ (/\ f \in {"mapArduino", "mapLongLong2"}
        /\ ~Degenerate
        /\ DiffsFit
        /\ Fits("long", TrueProduct)
        /\ Fits("long", ZQuot(TrueProduct, TrueRun))
        /\ Fits("long", TrueResult))
       => /\ ev = {}
          /\ IsTrueResult(result)
    /\ \A e \in TruncExamples :
           (f \in {"mapArduino", "mapLongLong2"} /\ args = e[1])
           => (ev = {} /\ result = e[2])

\* a positive product over a negative divisor, inexact: -2.248... becomes -2
C9_Witness ==
    /\ Returned("mapArduino")
    /\ args = Tuple(<<1000, 1023, 0, 100, 0>>)
    /\ ~TrueProduct.neg
    /\ TrueRun.neg
    /\ ~ZIsZero(ZSub(TrueProduct, ZMul(ZQuot(TrueProduct, TrueRun), TrueRun)))
    /\ result = 98

(***************************************************************************)
(* C10: in mapArduino the 32-bit product of map(9000000, 0, 10000000, 0,   *)
(* 1000) and of map(750, 0, 1000, 0, 10000000) does not fit; wrapped       *)
(* modulo 2^32 it makes the call return 41 instead of 900, and -1089934    *)
(* instead of 7500000.  (The overflow is undefined behaviour; the other    *)
(* outcome of the model is the exact product carried on.)                  *)
(***************************************************************************)
WrapExamples ==
    { <<Tuple(<<9000000, 0, 10000000, 0, 1000>>), 41, 900>>,
      <<Tuple(<<750, 0, 1000, 0, 10000000>>), -1089934, 7500000>> }

C11_WideProductFits ==
    (f \in {"mapLongLong1", "mapLongLong2"} /\ "sub.wide" \notin ev)
    => /\ "mul.wrap" \notin ev
       /\ "mul.wide" \notin ev

\* delta and rise are both -2^31: the product is 2^62
C11_Witness ==
    /\ Returned("mapLongLong2")
    /\ ~Degenerate
    /\ TrueDelta = IntToZ(LONG_MIN)
    /\ TrueRise = IntToZ(LONG_MIN)
    /\ ev = {}

(***************************************************************************)
(* C17: mapESP32 called with inputMin = inputMax returns -1 whatever the   *)
(* value, outputMin and outputMax, by the early return and before any      *)
(* division; with inputMin # inputMax the early return is never taken.     *)
(***************************************************************************)
C17_EarlyReturn ==
    f = "mapESP32"
    => /\ Degenerate => (result = -1 /\ ev = {"invalid"})
       /\ ~Degenerate => "invalid" \notin ev

\* a degenerate range at the end of long, outputMin # outputMax
C17_Witness ==
    /\ Returned("mapESP32")
    /\ Degenerate
    /\ args.in_min = LONG_MIN
    /\ args.x = LONG_MAX
    /\ args.out_min # args.out_max
    /\ result = -1
    /\ ev = {"invalid"}

(***************************************************************************)
(* C18: for in_min # in_max, x between in_min and in_max inclusive (either *)
(* orientation) and differences that fit in 32 bits, the result of         *)
(* mapLongLong2 lies between out_min and out_max inclusive; narrowing the  *)
(* 64-bit quotient plus out_min to 32 bits loses nothing.                  *)
(***************************************************************************)
C18_RangeContainment ==
    (/\ f = "mapLongLong2"
     /\ ~Degenerate
     /\ DiffsFit
     /\ InRange(args.x, args.in_min, args.in_max))
    => /\ ev = {}
       /\ Fits("long", TrueResult)
       /\ result = ZToInt(TrueResult)
       /\ InRange(result, args.out_min, args.out_max)

\* x strictly inside a reversed source range, the product beyond 32 bits,
\* the result strictly inside the target range
C18_Witness ==
    /\ Returned("mapLongLong2")
    /\ DiffsFit
    /\ args.in_max < args.in_min
    /\ Interior(args.x, args.in_min, args.in_max)
    /\ ~Fits("long", TrueProduct)
    /\ Interior(result, args.out_min, args.out_max)

(***************************************************************************)
(* The second call and the recorded tables.                                *)
(***************************************************************************)
Compared(name1, name2) == pc = "compared" /\ f = name1 /\ g = name2

FloatCandidates == {"mapFloat1", "mapFloat2"}

FloatFixCandidates == {"mapCheckAndFloatFix1", "mapCheckAndFloatFix2"}

LongLongFixCandidates == {"mapCheckAndLongLongFix1", "mapCheckAndLongLongFix2"}

\* the candidates that divide in long when the 32-bit product fits
IntegerPath ==
    {"mapArduino", "mapESP32", "mapCheckNoFix"}
        \cup FloatFixCandidates \cup LongLongFixCandidates

\* the rows recorded for mapArduino: run 1 (wrapped products), run 2
Run1Wrapped == <<41, 900, -200, -100, 10000200, 9999872, 70, -108, 705032, -1089934>>

Run2Results == <<97, 98, 28, 695, 91, 2500, 5000, 7500, 5000, 80>>

(***************************************************************************)
(* C13: the float candidates mapFloat1 and mapFloat2, and                  *)
(* mapCheckAndFloatFix1 and mapCheckAndFloatFix2 on their overflow path,   *)
(* disagree with the 64-bit result: map(9000000, 0, 10000000, 0, 1000) is  *)
(* 899 where mapLongLong2 returns 900, and mapFloat1 and mapFloat2 return  *)
(* 97 for map(1000, 1023, 0, 100, 0) where mapLongLong2 returns 98.        *)
(***************************************************************************)
C13_FloatInconsistent ==
    /\ args = Tuple(<<9000000, 0, 10000000, 0, 1000>>)
       => /\ f \in FloatCandidates \cup FloatFixCandidates
             => (result = 899 /\ ev = {})
          /\ f = "mapLongLong2" => result = 900
          /\ (g = "mapLongLong2" /\ x2 = args.x) => other = 900
    /\ args = Tuple(<<1000, 1023, 0, 100, 0>>)
       => /\ f \in FloatCandidates => (result = 97 /\ ev = {})
          /\ f = "mapLongLong2" => result = 98
          /\ (g = "mapLongLong2" /\ x2 = args.x) => other = 98

\* the float fallback next to the 64-bit candidate: 899 against 900
C13_Witness ==
    /\ Compared("mapCheckAndFloatFix1", "mapLongLong2")
    /\ args = Tuple(<<9000000, 0, 10000000, 0, 1000>>)
    /\ ~Fits("long", TrueProduct)
    /\ result = 899
    /\ other = 900

C15_IntegerPathSame ==
    (/\ pc = "compared"
     /\ f \in IntegerPath
     /\ g = "mapLongLong2"
     /\ ~Degenerate
     /\ Fits("long", TrueProduct))
    => result = other

(***************************************************************************)
(* C15, amended: whenever the three differences and the product            *)
(* (x-in_min)*(out_max-out_min) fit in 32 bits and in_max # in_min, every  *)
(* candidate with an integer path returns the value mapLongLong2 returns;  *)
(* on the ten inputs of run2 it is 97, 98, 28, 695, 91, 2500, 5000, 7500,  *)
(* 5000, 80.                                                               *)
(***************************************************************************)
C15_IntegerPathSameWhenDifferencesFit ==
    /\ (/\ pc = "compared"
        /\ f \in IntegerPath
        /\ g = "mapLongLong2"
        /\ ~Degenerate
        /\ DiffsFit
        /\ Fits("long", TrueProduct))
       => result = other
    /\ \A i \in 1 .. Len(Run2Args) :
           args = Tuple(Run2Args[i])
           => /\ f \in IntegerPath \cup {"mapLongLong2"} => result = Run2Results[i]
              /\ (g = "mapLongLong2" /\ x2 = args.x) => other = Run2Results[i]

\* a checked candidate on its same-width path, an inexact negative quotient
C15_Witness ==
    /\ Compared("mapCheckAndFloatFix1", "mapLongLong2")
    /\ args = Tuple(Run2Args[2])
    /\ Fits("long", TrueProduct)
    /\ result = 98
    /\ other = 98

TrueResultAt(x) ==
    ZAdd(ZQuot(ZMul(ZSub(IntToZ(x), IntToZ(args.in_min)), TrueRise), TrueRun),
         IntToZ(args.out_min))

C19_Monotone ==
    (/\ pc = "compared"
     /\ f = g
     /\ f \in {"mapLongLong1", "mapLongLong2"}
     /\ args.x <= x2
     /\ ~Degenerate
     /\ DiffsFit
     /\ Fits("long", ZSub(IntToZ(x2), IntToZ(args.in_min)))
     /\ Fits("long", TrueResult)
     /\ Fits("long", TrueResultAt(x2)))
    => /\ (args.in_min < args.in_max /\ args.out_min <= args.out_max) => result <= other
       /\ (args.in_min < args.in_max /\ args.out_min >= args.out_max) => result >= other
       /\ (args.in_min > args.in_max /\ args.out_min <= args.out_max) => result >= other

\* a reversed target range: the larger value maps strictly lower, the
\* products beyond 32 bits
C19_Witness ==
    /\ Compared("mapLongLong2", "mapLongLong2")
    /\ args.x < x2
    /\ DiffsFit
    /\ args.in_min < args.in_max
    /\ args.out_min > args.out_max
    /\ ~Fits("long", TrueProduct)
    /\ Fits("long", TrueResult)
    /\ Fits("long", TrueResultAt(x2))
    /\ result > other

\* what candidate fn can return on the arguments a, called on its own
Outcomes(fn, a) ==
    CASE fn = "mapESP32" -> mapESP32(a.x, a.in_min, a.in_max, a.out_min, a.out_max)
      [] fn = "mapLongLong1" ->
             mapLongLong1(a.x, a.in_min, a.in_max, a.out_min, a.out_max)
      [] fn = "mapLongLong2" ->
             mapLongLong2(a.x, a.in_min, a.in_max, a.out_min, a.out_max)

\* every finished call has a result that the candidate gives on the five
\* arguments of that call alone
ResultsOwn ==
    \A c \in Callers :
        calls[c].pc \in {"done", "trapped"}
            => [val |-> calls[c].val, ev |-> calls[c].ev]
                   \in Outcomes(calls[c].fn, calls[c].a)

\* a step that is not a step of caller c leaves the frame of c alone
FramesPrivate ==
    \A c \in Callers : calls'[c] = calls[c] => locals'[Slot(c)] = locals[Slot(c)]

\* the log is written only by mapESP32, built for the ESP32, on a
\* degenerate range
LogOnlyInvalidRange ==
    \A k \in 1 .. Len(log) :
        /\ esp32
        /\ calls[log[k]].fn = "mapESP32"
        /\ calls[log[k]].a.in_min = calls[log[k]].a.in_max

\* C12 as stated: the mapping is pure: callers in any interleaving get
\* results that depend only on their own five arguments, and no call reads
\* or writes state shared with another call (not the log either).
C12_Pure ==
    /\ ResultsOwn
    /\ log = <<>>

\* C12: callers in any interleaving get results that depend only on their own
\* five arguments and no call reads or writes a variable of another call;
\* the one effect outside the call is the error line that mapESP32 writes to
\* the log, on an ESP32 build, when inputMin == inputMax.
C12_PureButForTheLog ==
    /\ [](ResultsOwn /\ LogOnlyInvalidRange)
    /\ [][FramesPrivate]_vars

\* two calls of different candidates on different arguments overlapped and
\* both returned, one of them the early -1 of mapESP32 after its log line
C12_Witness ==
    /\ calls[1].pc = "done" /\ calls[1].mixed
    /\ calls[1].fn = "mapLongLong1" /\ calls[1].a.x = 750 /\ calls[1].val = 7500000
    /\ calls[2].pc = "done" /\ calls[2].mixed
    /\ calls[2].fn = "mapESP32" /\ calls[2].val = -1
    /\ log = <<2>>

\* the average of RUN_COUNT runs of input set t, as float
Average(t) ==
    FDiv(FromLong(IntToZ(RUN_COUNT * ms[t])), FromLong(IntToZ(RUN_COUNT)))

\* every average reported is that of RUN_COUNT timed runs, and stays so
\* through the detailed runs, which print no average
AveragesReported ==
    /\ \A k \in 1 .. Len(serial) :
           serial[k].kind = "time"
               => /\ serial[k].runs = RUN_COUNT
                  /\ serial[k].value = Average(serial[k].run - 1)
    /\ setupPc \in {"detail1", "detail2", "done"}
           => /\ Len(SelectSeq(serial, LAMBDA l : l.kind = "time")) = 2 * FUNCS
              /\ \A k \in 1 .. 2 * FUNCS + 2 : serial[k].kind # "data"

====
